---- MODULE Spec2Model ----
(***************************************************************************)
(* Model of the audio speaker configuration workflow of                    *)
(* ruchy/src/audio_speakers.rs: detect_audio_devices, configure_speaker,   *)
(* get_current_speaker_config, validate_device_id and extract_field, run   *)
(* against a model of the pactl commands they invoke.                      *)
(*                                                                         *)
(* Text is a sequence of characters; a character is a one-character        *)
(* string, except NUL, which stands for the null byte.                     *)
(***************************************************************************)
EXTENDS Integers, Sequences, FiniteSets, TLC

(***************************************************************************)
(* Characters and the str methods the source uses.  A value that is used   *)
(* more than once is passed to a helper as a parameter.                    *)
(***************************************************************************)
NUL == "NUL"

\* char::is_whitespace, restricted to the ASCII white space characters
IsWhitespace(c) == c \in {" ", "\t", "\n", "\r", "\f"}

RECURSIVE TrimStart(_)
TrimStart(s) ==
  IF s = <<>> THEN <<>>
  ELSE IF IsWhitespace(Head(s)) THEN TrimStart(Tail(s)) ELSE s

RECURSIVE TrimEnd(_)
TrimEnd(s) ==
  IF s = <<>> THEN <<>>
  ELSE IF IsWhitespace(s[Len(s)]) THEN TrimEnd(SubSeq(s, 1, Len(s) - 1)) ELSE s

\* str::trim
Trim(s) == TrimEnd(TrimStart(s))

\* str::starts_with
StartsWith(s, p) == Len(s) >= Len(p) /\ SubSeq(s, 1, Len(p)) = p

\* the positions at which pattern p occurs in s
Occurrences(s, p) ==
  {i \in 1..(Len(s) - Len(p) + 1) : SubSeq(s, i, i + Len(p) - 1) = p}

\* str::contains
Contains(s, p) == Occurrences(s, p) # {}

\* the least member of a set of positions, 0 for the empty set
MinOrZero(S) == IF S = {} THEN 0 ELSE CHOOSE i \in S : \A j \in S : i <= j

\* str::find: the first position of p in s, 0 when there is none
FirstOccurrence(s, p) == MinOrZero(Occurrences(s, p))

\* str::split(pattern): the pieces between the occurrences of a non-empty
\* pattern, from left to right; always at least one piece
RECURSIVE Split(_, _)
SplitAt(s, p, i) ==
  IF i = 0 THEN <<s>>
  ELSE <<SubSeq(s, 1, i - 1)>> \o Split(SubSeq(s, i + Len(p), Len(s)), p)
Split(s, p) == SplitAt(s, p, FirstOccurrence(s, p))

\* one line of str::lines loses a trailing carriage return
StripCR(l) ==
  IF l # <<>> /\ l[Len(l)] = "\r" THEN SubSeq(l, 1, Len(l) - 1) ELSE l

\* str::lines: split at "\n"; a final empty piece is no line
StripEach(ls) == [i \in 1..Len(ls) |-> StripCR(ls[i])]
DropFinalEmpty(parts) ==
  IF parts[Len(parts)] = <<>> THEN SubSeq(parts, 1, Len(parts) - 1) ELSE parts
Lines(s) == StripEach(DropFinalEmpty(Split(s, <<"\n">>)))

\* str::split_whitespace: the maximal runs of non-white-space characters
RECURSIVE TakeToken(_)
TakeToken(s) ==
  IF s = <<>> \/ IsWhitespace(Head(s)) THEN <<>>
  ELSE <<Head(s)>> \o TakeToken(Tail(s))

RECURSIVE SplitWhitespace(_)
TokenThenRest(t, tok) ==
  <<tok>> \o SplitWhitespace(SubSeq(t, Len(tok) + 1, Len(t)))
TokensOfTrimmed(t) == IF t = <<>> THEN <<>> ELSE TokenThenRest(t, TakeToken(t))
SplitWhitespace(s) == TokensOfTrimmed(TrimStart(s))

\* Option<T>
None == [some |-> FALSE]
Some(v) == [some |-> TRUE, v |-> v]

\* Option::unwrap_or, Option::unwrap_or_else
UnwrapOr(opt, default) == IF opt.some THEN opt.v ELSE default

\* Iterator::find over a sequence: the index of the first element
\* satisfying Test, 0 when there is none
FirstIndex(seq, Test(_)) == MinOrZero({i \in 1..Len(seq) : Test(seq[i])})

(***************************************************************************)
(* extract_field (lines 291-299): the first line that, trimmed, starts     *)
(* with the label; its value is the trimmed text after its first colon.    *)
(***************************************************************************)
\* lines 295-297, given the position of the first colon (0: no colon)
ValueAfter(line, colon) ==
  IF colon = 0 THEN <<>> ELSE Trim(SubSeq(line, colon + 1, Len(line)))

\* lines 294-298 on the line line 293 found (k = 0: no such line)
FieldOfLineAt(ls, k) ==
  IF k = 0 THEN None
  ELSE Some(ValueAfter(ls[k], FirstOccurrence(ls[k], <<":">>)))

\* a search that keeps the last line with the label
FieldOfLinesLast(ls, field) ==
  FieldOfLineAt(ls, IF \E i \in 1..Len(ls) : StartsWith(Trim(ls[i]), field)
                    THEN CHOOSE i \in 1..Len(ls) :
                           /\ StartsWith(Trim(ls[i]), field)
                           /\ \A j \in (i + 1)..Len(ls) :
                                ~StartsWith(Trim(ls[j]), field)
                    ELSE 0)

FieldOfLines(ls, field) ==
  FieldOfLineAt(ls, FirstIndex(ls, LAMBDA line : StartsWith(Trim(line), field)))

extract_field(text, field) == FieldOfLines(Lines(text), field)

(***************************************************************************)
(* Data types (lines 12-33).                                               *)
(***************************************************************************)
AudioDevice(id, name, description, is_default) ==
  [id |-> id, name |-> name, description |-> description,
   is_default |-> is_default]

SpeakerConfig(device_id, volume, muted) ==
  [device_id |-> device_id, volume |-> volume, muted |-> muted]

\* ConfigError: the variant and the text it carries
DeviceNotFound(id) == [kind |-> "DeviceNotFound", text |-> id]
PermissionDenied(msg) == [kind |-> "PermissionDenied", text |-> msg]
CommandFailed(msg) == [kind |-> "CommandFailed", text |-> msg]
InvalidState(msg) == [kind |-> "InvalidState", text |-> msg]

\* Result<T, ConfigError>
Ok(v) == [ok |-> TRUE, v |-> v]
Err(e) == [ok |-> FALSE, e |-> e]

(***************************************************************************)
(* Literal texts of the source.                                            *)
(***************************************************************************)
SinkMarker == <<"S", "i", "n", "k", " ", "#">>
NameLabel == <<"N", "a", "m", "e", ":">>
DescriptionLabel ==
  <<"D", "e", "s", "c", "r", "i", "p", "t", "i", "o", "n", ":">>
VolumeLabel == <<"V", "o", "l", "u", "m", "e", ":">>
MuteLabel == <<"M", "u", "t", "e", ":">>
SinkPrefix == <<"s", "i", "n", "k", "-">>
Yes == <<"y", "e", "s">>

\* a message literal is kept whole, as one element of the text
MsgEmptyId == <<"Device ID cannot be empty">>
MsgInvalidFormat(device_id) == <<"Invalid device ID format: ">> \o device_id
MsgNoDefaultSink == <<"No default sink configured">>
MsgNotApplied == <<"Configuration not applied correctly">>

(***************************************************************************)
(* validate_device_id (lines 259-282).                                     *)
(***************************************************************************)
\* validate_device_id without the check for spaces
ValidateNoSpaceCheck(device_id) ==
  IF device_id = <<>> THEN FALSE
  ELSE IF Contains(device_id, <<NUL>>) THEN FALSE
  ELSE IF Contains(device_id, <<".", ".">>) \/ Contains(device_id, <<"/">>)
          \/ Contains(device_id, <<"\\">>) THEN FALSE
  ELSE TRUE

validate_device_id(device_id) ==
  IF device_id = <<>> THEN FALSE
  ELSE IF Contains(device_id, <<NUL>>) THEN FALSE
  ELSE IF Contains(device_id, <<".", ".">>) \/ Contains(device_id, <<"/">>)
          \/ Contains(device_id, <<"\\">>) THEN FALSE
  ELSE IF Contains(device_id, <<" ">>) THEN FALSE
  ELSE TRUE

(***************************************************************************)
(* The identifier check at the head of configure_speaker (lines 127-140):  *)
(* None when the identifier passes, the error otherwise.                   *)
(***************************************************************************)
\* the inline check without the test for ".."
InlineCheckNoDotDot(device_id) ==
  IF device_id = <<>> THEN Some(InvalidState(MsgEmptyId))
  ELSE IF Contains(device_id, <<NUL>>)
  THEN Some(InvalidState(MsgInvalidFormat(device_id)))
  ELSE None

\* an inline check that asks validate_device_id
InlineCheckValidates(device_id) ==
  IF device_id = <<>> THEN Some(InvalidState(MsgEmptyId))
  ELSE IF ~validate_device_id(device_id)
  THEN Some(InvalidState(MsgInvalidFormat(device_id)))
  ELSE None

InlineCheck(device_id) ==
  IF device_id = <<>> THEN Some(InvalidState(MsgEmptyId))
  ELSE IF Contains(device_id, <<NUL>>) \/ Contains(device_id, <<".", ".">>)
  THEN Some(InvalidState(MsgInvalidFormat(device_id)))
  ELSE None

(***************************************************************************)
(* The parse of the sink listing in detect_audio_devices (lines 80-118).   *)
(***************************************************************************)
\* lines 90-95: the first white-space-delimited token of the first line
FirstOrEmpty(toks) == IF toks = <<>> THEN <<>> ELSE toks[1]
FirstTokenOf(ls) ==
  IF ls = <<>> THEN <<>> ELSE FirstOrEmpty(SplitWhitespace(ls[1]))
BlockId(sink_block) == FirstTokenOf(Lines(sink_block))

\* lines 97-99
DeviceNameIsId(id, name_field) == UnwrapOr(name_field, id)
DeviceName(id, name_field) == UnwrapOr(name_field, SinkPrefix \o id)

\* lines 101-114: the device of a block, given its id and name
DeviceAlwaysDefault(id, name, description_field, default_sink) ==
  AudioDevice(id, name, UnwrapOr(description_field, name), TRUE)
DeviceNamed(id, name, description_field, default_sink) ==
  AudioDevice(id, name, UnwrapOr(description_field, name),
              name = default_sink)

\* lines 108-115: a block without an id yields no device
PushAlways(d) == <<d>>
PushIfId(d) == IF d.id # <<>> THEN <<d>> ELSE <<>>

DeviceOf(id, name_field, description_field, default_sink) ==
  PushIfId(DeviceNamed(id, DeviceName(id, name_field), description_field,
                       default_sink))

\* lines 85-115: the devices (none or one) of one block
DevicesOfBlock(sink_block, default_sink) ==
  IF Trim(sink_block) = <<>> THEN <<>>
  ELSE DeviceOf(BlockId(sink_block),
                extract_field(sink_block, NameLabel),
                extract_field(sink_block, DescriptionLabel), default_sink)

\* line 84: the blocks in order
RECURSIVE DevicesOfBlocks(_, _)
DevicesOfBlocks(blocks, default_sink) ==
  IF blocks = <<>> THEN <<>>
  ELSE DevicesOfBlock(Head(blocks), default_sink)
       \o DevicesOfBlocks(Tail(blocks), default_sink)

ParseDevices(stdout, default_sink) ==
  DevicesOfBlocks(Split(stdout, SinkMarker), default_sink)

(***************************************************************************)
(* The device lookup of configure_speaker (lines 147-150).                 *)
(***************************************************************************)
DeviceAt(devices, k) == IF k = 0 THEN None ELSE Some(devices[k])

\* a lookup that matches the name only
FindDeviceByName(devices, device_id) ==
  DeviceAt(devices, FirstIndex(devices, LAMBDA d : d.name = device_id))

FindDevice(devices, device_id) ==
  DeviceAt(devices,
           FirstIndex(devices,
                      LAMBDA d : d.id = device_id \/ d.name = device_id))

(***************************************************************************)
(* The parse of get_current_speaker_config (lines 213-249).                *)
(***************************************************************************)
I32Min == (0 - 2147483647) - 1
I32Max == 2147483647

Digits == <<"0", "1", "2", "3", "4", "5", "6", "7", "8", "9">>
IsDigit(c) == \E i \in 1..10 : Digits[i] = c
DigitValue(c) == (CHOOSE i \in 1..10 : Digits[i] = c) - 1

\* i32::from_str: the digits are taken in order with checked_mul and
\* checked_add (checked_sub after a '-'); acc is None once one has overflowed
Accumulate(acc, d, negative) ==
  IF ~acc.some THEN None
  ELSE IF negative
  THEN IF \/ acc.v > 0 - (I32Max \div 10)
          \/ (acc.v = 0 - (I32Max \div 10) /\ d <= (I32Max % 10) + 1)
       THEN Some(10 * acc.v - d) ELSE None
  ELSE IF \/ acc.v < I32Max \div 10
          \/ (acc.v = I32Max \div 10 /\ d <= I32Max % 10)
       THEN Some(10 * acc.v + d) ELSE None

RECURSIVE CheckedValue(_, _)
CheckedValue(ds, negative) ==
  IF ds = <<>> THEN Some(0)
  ELSE Accumulate(CheckedValue(SubSeq(ds, 1, Len(ds) - 1), negative),
                  DigitValue(ds[Len(ds)]), negative)

\* str::parse::<i32>: an optional sign, then one or more digits, in range
ParseDigits(ds, negative) ==
  IF ds = <<>> \/ \E i \in 1..Len(ds) : ~IsDigit(ds[i]) THEN None
  ELSE CheckedValue(ds, negative)
ParseI32(tok) ==
  IF tok # <<>> /\ tok[1] \in {"+", "-"}
  THEN ParseDigits(Tail(tok), tok[1] = "-")
  ELSE ParseDigits(tok, FALSE)

\* i32::clamp
NoClamp(v, lo, hi) == v
Clamp(v, lo, hi) == IF v < lo THEN lo ELSE IF v > hi THEN hi ELSE v

\* lines 230-232: the last token, parsed
ParseLast(toks) == IF toks = <<>> THEN None ELSE ParseI32(toks[Len(toks)])

\* lines 227-234: the text before the first '%'
ParseVolume(vol_line) ==
  ParseLast(SplitWhitespace(Split(vol_line, <<"%">>)[1]))

\* Option::and_then
VolumeOfField(field) == IF field.some THEN ParseVolume(field.v) ELSE None

\* lines 226-238
BlockVolume(sink_block) ==
  Clamp(UnwrapOr(VolumeOfField(extract_field(sink_block, VolumeLabel)), 100),
        0, 100)

\* lines 241-243
MutedOfField(field) == IF field.some THEN Trim(field.v) = Yes ELSE FALSE
BlockMuted(sink_block) == MutedOfField(extract_field(sink_block, MuteLabel))

\* lines 216-249: the config of the block line 218 found (k = 0: none)
ConfigOrDefault(blocks, k, device_id) ==
  Ok(SpeakerConfig(device_id,
                   IF k = 0 THEN 100 ELSE BlockVolume(blocks[k]),
                   IF k = 0 THEN FALSE ELSE BlockMuted(blocks[k])))
ConfigOfBlockAt(blocks, k, device_id) ==
  IF k = 0 THEN Err(DeviceNotFound(device_id))
  ELSE Ok(SpeakerConfig(device_id, BlockVolume(blocks[k]),
                        BlockMuted(blocks[k])))

\* lines 219-221: is this the block of the default device
IsBlockOf(field, device_id) == IF field.some THEN field.v = device_id ELSE FALSE

ConfigOfBlocks(blocks, device_id) ==
  ConfigOfBlockAt(blocks,
    FirstIndex(blocks,
               LAMBDA block : IsBlockOf(extract_field(block, NameLabel),
                                        device_id)),
    device_id)

ParseConfig(info_stdout, device_id) ==
  ConfigOfBlocks(Split(info_stdout, SinkMarker), device_id)

(***************************************************************************)
(* The audio subsystem behind pactl.  Its state is the sink listing and    *)
(* the default sink; every command may fail to spawn or exit non-success.  *)
(***************************************************************************)
VARIABLES
  sinks,            \* the text `pactl list sinks` prints
  default_sink,     \* Option: the name of the default sink
  pc,               \* per caller: the command it issues next, or "idle"
  op,               \* per caller: the operation it runs or ran last
  device_id,        \* configure_speaker: the identifier supplied
  ret,              \* get_current_speaker_config: who called it
  name,             \* get_current_speaker_config: its local device_id
  stdout,           \* detect_audio_devices: the listing it read
  original_config,  \* configure_speaker: the snapshot
  device,           \* configure_speaker: the resolved device
  pending,          \* configure_speaker: the error to return after rollback
  result,           \* per caller: what the last operation returned
  issued,           \* per caller: the set-default-sink commands of this call
  before,           \* per caller: default_sink when configure was called
  reread,           \* per caller: Option, the config read back to verify
  named,            \* per caller: the identifier is a detected device's name
  chain,            \* the identifiers of the latest successful configures
  reads,            \* per caller: how the read commands of this call ended
  prev,             \* per caller: the call before this one, when kept
  keep,             \* whether a caller's previous call is kept in prev
  input,            \* the argument of a pure function under check
  answer,           \* Option: what the pure function returned
  metrics,          \* MetricsCollector: the map behind the RwLock
  writer,           \* the thread holding the write lock, 0 for none
  at,               \* per thread: where it is inside increment, or "idle"
  of_key,           \* per thread: the key of its increment
  current,          \* per thread: the local `current` of increment
  done,             \* the increment calls that returned, in order
  got               \* per thread: what its last get returned

envVars == <<sinks, default_sink>>
callVars == <<pc, op, device_id, ret, name, stdout, original_config, device,
              pending, result, issued, before, reread, named, chain, reads,
              prev>>
metricVars == <<metrics, writer, at, of_key, current, done, got>>
pureVars == <<input, answer, keep, metricVars>>
vars == <<envVars, callVars, pureVars>>

\* std::process::Output, and the io::Error of a failed spawn
Output(success, out, err) ==
  [spawned |-> TRUE, success |-> success, stdout |-> out, stderr |-> err]
SpawnError(e) == [spawned |-> FALSE, e |-> e]

\* diagnostic texts, each kept whole as one element of the text
SpawnErrors == {<<"No such file or directory">>, <<"Permission denied">>}
StderrTexts == {<<"Connection failure">>, <<"No such entity">>}

\* what `pactl get-default-sink` can return
GetDefaultSinkOutputs ==
  {SpawnError(<<"No such file or directory">>),
   Output(FALSE, <<>>, <<"Connection failure">>)}
  \cup (IF default_sink.some
        THEN {Output(TRUE, default_sink.v \o <<"\n">>, <<>>)} ELSE {})

\* what `pactl list sinks` can return
ListSinksOutputs ==
  {SpawnError(<<"No such file or directory">>),
   Output(FALSE, <<>>, <<"Connection failure">>),
   Output(TRUE, sinks, <<>>)}

\* the subsystem has a sink of that name
IsSink(arg) ==
  FirstIndex(Split(sinks, SinkMarker),
             LAMBDA block : IsBlockOf(extract_field(block, NameLabel), arg)) # 0

\* what `pactl set-default-sink <arg>` can return; `applied` tells whether
\* the subsystem took the new default (a successful exit does not promise
\* it); the command exits with success for the name of a sink only
FailedOutcomes ==
  {[out |-> SpawnError(e), applied |-> FALSE] : e \in SpawnErrors}
  \cup {[out |-> Output(FALSE, <<>>, t), applied |-> FALSE] : t \in StderrTexts}
SucceededOutcomes ==
  {[out |-> Output(TRUE, <<>>, <<>>), applied |-> b] : b \in BOOLEAN}

\* the default sink after a set-default-sink command with that outcome
DefaultAfter(arg, outcome) ==
  IF outcome.applied THEN Some(arg) ELSE default_sink

(***************************************************************************)
(* Sink listings in pactl's format.                                        *)
(***************************************************************************)
Line(label, value) == <<"\t">> \o label \o <<" ">> \o value \o <<"\n">>
Block(id, body) == SinkMarker \o id \o <<"\n">> \o body

DevA == <<"a">>
DevB == <<"b">>

\* two sinks with every field
ListingTwo ==
  Block(<<"0">>, Line(NameLabel, DevA)
                 \o Line(DescriptionLabel, <<"S", "p">>)
                 \o Line(MuteLabel, <<"n", "o">>)
                 \o Line(VolumeLabel,
                         <<"5", "0", "%", " ", "/", " ", "5", "0", "%">>))
  \o Block(<<"1">>, Line(NameLabel, DevB)
                    \o Line(DescriptionLabel, <<"H", "p">>)
                    \o Line(MuteLabel, Yes)
                    \o Line(VolumeLabel,
                            <<"8", "0", "%", " ", "/", " ", "8", "0", "%">>))

\* the id of the first sink is the name of the second
ListingCollide ==
  Block(<<"1">>, Line(NameLabel, DevA))
  \o Block(<<"2">>, Line(NameLabel, <<"1">>))

\* a sink without a Name: line, and one without Volume: and Mute:
ListingSparse ==
  Block(<<"0">>, Line(DescriptionLabel, <<"S", "p">>))
  \o Block(<<"1">>, Line(NameLabel, DevB))

Listings == {ListingTwo, ListingCollide, ListingSparse}
InitialDefaults == {None, Some(DevA), Some(DevB)}

\* the identifiers a caller passes to configure_speaker
Identifiers ==
  {<<>>, DevA, DevB, <<"0">>, <<"1">>, <<"x">>, <<".", ".">>, <<"a", NUL>>,
   <<"a", " ">>}

Callers == {1}

\* the threads sharing one MetricsCollector, and the keys they use
Threads == {1, 2}
Keys == {<<"counter">>, <<"errors">>}

\* logger.rs lines 249-253: MetricsCollector::new, and no call under way
FreshCollector ==
  /\ metrics = <<>>
  /\ writer = 0
  /\ at = [t \in Threads |-> "idle"]
  /\ of_key = [t \in Threads |-> <<>>]
  /\ current = [t \in Threads |-> 0]
  /\ done = <<>>
  /\ got = [t \in Threads |-> None]
NoValue == [none |-> TRUE]

Init ==
  /\ sinks \in Listings
  /\ default_sink \in InitialDefaults
  /\ pc = [p \in Callers |-> "idle"]
  /\ op = [p \in Callers |-> "none"]
  /\ device_id = [p \in Callers |-> <<>>]
  /\ ret = [p \in Callers |-> "top"]
  /\ name = [p \in Callers |-> <<>>]
  /\ stdout = [p \in Callers |-> <<>>]
  /\ original_config = [p \in Callers |-> NoValue]
  /\ device = [p \in Callers |-> NoValue]
  /\ pending = [p \in Callers |-> NoValue]
  /\ result = [p \in Callers |-> NoValue]
  /\ issued = [p \in Callers |-> <<>>]
  /\ before = [p \in Callers |-> None]
  /\ reread = [p \in Callers |-> None]
  /\ named = [p \in Callers |-> FALSE]
  /\ chain = <<>>
  /\ reads = [p \in Callers |-> <<>>]
  /\ prev = [p \in Callers |-> NoValue]
  /\ keep = FALSE
  /\ FreshCollector
  /\ input = <<>>
  /\ answer = None

(***************************************************************************)
(* The operations.  Each action is one external command together with the  *)
(* code that runs up to the next command or the return.                    *)
(***************************************************************************)
\* is the identifier the name of one of the devices
IsNameOf(devices, id) == \E i \in 1..Len(devices) : devices[i].name = id

KeepLast3(s) == IF Len(s) > 3 THEN SubSeq(s, Len(s) - 2, Len(s)) ELSE s

\* an operation of caller p returns r; mutated: the call issued a
\* set-default-sink command
Finish(p, r, mutated) ==
  /\ pc' = [pc EXCEPT ![p] = "idle"]
  /\ result' = [result EXCEPT ![p] = r]
  /\ chain' =
       IF op[p] # "configure" THEN chain
       ELSE IF r.ok
       THEN IF named[p]
            THEN KeepLast3(Append(chain, device_id[p])) ELSE <<>>
       ELSE IF mutated THEN <<>> ELSE chain

\* how a command ended: it did not spawn, it exited with a failure, or it
\* exited with success
HowEnded(o) ==
  IF ~o.spawned THEN "spawn" ELSE IF ~o.success THEN "exit" ELSE "ok"

\* caller p has run the read command cmd, which returned o
Read(p, cmd, o) ==
  reads' = [reads EXCEPT ![p] = Append(@, [cmd |-> cmd, how |-> HowEnded(o)])]

\* caller p starts an operation: the call it made before is set aside
Begin(p) ==
  /\ reads' = [reads EXCEPT ![p] = <<>>]
  /\ prev' = [prev EXCEPT ![p] =
               IF keep
               THEN [op |-> op[p], result |-> result[p], reads |-> reads[p]]
               ELSE @]

\* line 126: configure_speaker is called; lines 127-140 run
Configure(p, id) ==
  /\ pc[p] = "idle"
  /\ op' = [op EXCEPT ![p] = "configure"]
  /\ device_id' = [device_id EXCEPT ![p] = id]
  /\ issued' = [issued EXCEPT ![p] = <<>>]
  /\ before' = [before EXCEPT ![p] = default_sink]
  /\ reread' = [reread EXCEPT ![p] = None]
  /\ named' = [named EXCEPT ![p] = FALSE]
  /\ name' = [name EXCEPT ![p] = <<>>]
  /\ stdout' = [stdout EXCEPT ![p] = <<>>]
  /\ original_config' = [original_config EXCEPT ![p] = NoValue]
  /\ device' = [device EXCEPT ![p] = NoValue]
  /\ pending' = [pending EXCEPT ![p] = NoValue]
  /\ LET check == InlineCheck(id)
     IN  IF check.some
         THEN /\ result' = [result EXCEPT ![p] = Err(check.v)]
              /\ UNCHANGED <<pc, ret>>
         ELSE /\ result' = [result EXCEPT ![p] = NoValue]
              /\ pc' = [pc EXCEPT ![p] = "gc_default"]
              /\ ret' = [ret EXCEPT ![p] = "snapshot"]
  /\ Begin(p)
  /\ UNCHANGED <<envVars, pureVars, chain>>

\* line 194: get_current_speaker_config is called by the caller itself
GetCurrent(p) ==
  /\ pc[p] = "idle"
  /\ op' = [op EXCEPT ![p] = "get_current"]
  /\ ret' = [ret EXCEPT ![p] = "top"]
  /\ pc' = [pc EXCEPT ![p] = "gc_default"]
  /\ result' = [result EXCEPT ![p] = NoValue]
  /\ name' = [name EXCEPT ![p] = <<>>]
  /\ Begin(p)
  /\ UNCHANGED <<envVars, pureVars, device_id, stdout, original_config,
                 device, pending, issued, before, reread, named, chain>>

\* line 56: detect_audio_devices is called by the caller itself
Detect(p) ==
  /\ pc[p] = "idle"
  /\ op' = [op EXCEPT ![p] = "detect"]
  /\ pc' = [pc EXCEPT ![p] = "dt_list"]
  /\ result' = [result EXCEPT ![p] = NoValue]
  /\ stdout' = [stdout EXCEPT ![p] = <<>>]
  /\ Begin(p)
  /\ UNCHANGED <<envVars, pureVars, device_id, ret, name, original_config,
                 device, pending, issued, before, reread, named, chain>>

\* line 176: the verification of configure_speaker
VerifyAlways(config, dev) == TRUE
VerifyMatches(config, dev) == config.device_id = dev.name

\* a snapshot whose failure does not end configure_speaker
GcReturnGoesOn(p, r) ==
  /\ UNCHANGED <<envVars, pureVars, op, device_id, ret, name, stdout, device,
                 issued, before, named, prev>>
  /\ CASE ret[p] = "top" ->
            /\ Finish(p, r, FALSE)
            /\ UNCHANGED <<original_config, pending, reread>>
       [] ret[p] = "snapshot" ->
            IF r.ok
            THEN /\ original_config' = [original_config EXCEPT ![p] = r.v]
                 /\ pc' = [pc EXCEPT ![p] = "dt_list"]
                 /\ UNCHANGED <<pending, reread, result, chain>>
            ELSE /\ original_config' = [original_config EXCEPT ![p] =
                                            SpeakerConfig(<<>>, 0, FALSE)]
                 /\ pc' = [pc EXCEPT ![p] = "dt_list"]
                 /\ UNCHANGED <<pending, reread, result, chain>>
       [] ret[p] = "verify" ->
            IF ~r.ok
            THEN /\ Finish(p, r, TRUE)
                 /\ UNCHANGED <<original_config, pending, reread>>
            ELSE /\ reread' = [reread EXCEPT ![p] = Some(r.v)]
                 /\ IF VerifyMatches(r.v, device[p])
                    THEN /\ Finish(p, Ok(NoValue), TRUE)
                         /\ UNCHANGED pending
                    ELSE /\ pending' = [pending EXCEPT ![p] =
                                          InvalidState(MsgNotApplied)]
                         /\ pc' = [pc EXCEPT ![p] = "rollback"]
                         /\ UNCHANGED <<result, chain>>
                 /\ UNCHANGED original_config

\* get_current_speaker_config returns r to its call site: to the caller,
\* to line 143 (the snapshot) or to lines 175-187 (the verification)
GcReturn(p, r) ==
  /\ UNCHANGED <<envVars, pureVars, op, device_id, ret, name, stdout, device,
                 issued, before, named, prev>>
  /\ CASE ret[p] = "top" ->
            /\ Finish(p, r, FALSE)
            /\ UNCHANGED <<original_config, pending, reread>>
       [] ret[p] = "snapshot" ->
            IF r.ok
            THEN /\ original_config' = [original_config EXCEPT ![p] = r.v]
                 /\ pc' = [pc EXCEPT ![p] = "dt_list"]
                 /\ UNCHANGED <<pending, reread, result, chain>>
            ELSE /\ Finish(p, r, FALSE)
                 /\ UNCHANGED <<original_config, pending, reread>>
       [] ret[p] = "verify" ->
            IF ~r.ok
            THEN /\ Finish(p, r, TRUE)
                 /\ UNCHANGED <<original_config, pending, reread>>
            ELSE /\ reread' = [reread EXCEPT ![p] = Some(r.v)]
                 /\ IF VerifyMatches(r.v, device[p])
                    THEN /\ Finish(p, Ok(NoValue), TRUE)
                         /\ UNCHANGED pending
                    ELSE /\ pending' = [pending EXCEPT ![p] =
                                          InvalidState(MsgNotApplied)]
                         /\ pc' = [pc EXCEPT ![p] = "rollback"]
                         /\ UNCHANGED <<result, chain>>
                 /\ UNCHANGED original_config

\* lines 196-205: `pactl get-default-sink` of get_current_speaker_config
GcGetDefaultSink(p) ==
  /\ pc[p] = "gc_default"
  /\ \E o \in GetDefaultSinkOutputs :
       /\ Read(p, "get-default-sink", o)
       /\ IF ~o.spawned THEN GcReturn(p, Err(CommandFailed(o.e)))
          ELSE IF ~o.success
          THEN GcReturn(p, Err(InvalidState(MsgNoDefaultSink)))
          ELSE /\ name' = [name EXCEPT ![p] = Trim(o.stdout)]
               /\ pc' = [pc EXCEPT ![p] = "gc_list"]
               /\ UNCHANGED <<envVars, pureVars, op, device_id, ret, stdout,
                              original_config, device, pending, result,
                              issued, before, reread, named, chain, prev>>

\* lines 208-249: `pactl list sinks` of get_current_speaker_config; the
\* exit status is not looked at
GcListSinks(p) ==
  /\ pc[p] = "gc_list"
  /\ \E o \in ListSinksOutputs :
       /\ Read(p, "list sinks", o)
       /\ IF ~o.spawned THEN GcReturn(p, Err(CommandFailed(o.e)))
          ELSE GcReturn(p, ParseConfig(o.stdout, name[p]))

\* a lookup that detects again when it found no device
ResolveRetry(p, devices, found) ==
  IF ~found.some
  THEN /\ pc' = [pc EXCEPT ![p] = "dt_list"]
       /\ UNCHANGED <<device, named, result, chain>>
  ELSE /\ device' = [device EXCEPT ![p] = found.v]
       /\ named' = [named EXCEPT ![p] = IsNameOf(devices, device_id[p])]
       /\ pc' = [pc EXCEPT ![p] = "apply"]
       /\ UNCHANGED <<result, chain>>

\* lines 147-150: the device is found, or configure_speaker returns
Resolve(p, devices, found) ==
  IF ~found.some
  THEN /\ Finish(p, Err(DeviceNotFound(device_id[p])), FALSE)
       /\ UNCHANGED <<device, named>>
  ELSE /\ device' = [device EXCEPT ![p] = found.v]
       /\ named' = [named EXCEPT ![p] = IsNameOf(devices, device_id[p])]
       /\ pc' = [pc EXCEPT ![p] = "apply"]
       /\ UNCHANGED <<result, chain>>

\* detect_audio_devices returns r: to the caller, or to lines 146-150
DtReturn(p, r) ==
  /\ UNCHANGED <<envVars, pureVars, op, device_id, ret, name, stdout,
                 original_config, pending, issued, before, reread, prev>>
  /\ IF op[p] = "detect" \/ ~r.ok
     THEN Finish(p, r, FALSE) /\ UNCHANGED <<device, named>>
     ELSE Resolve(p, r.v, FindDevice(r.v, device_id[p]))

\* lines 58-66: `pactl list sinks` of detect_audio_devices
DtListSinks(p) ==
  /\ pc[p] = "dt_list"
  /\ \E o \in ListSinksOutputs :
       /\ Read(p, "list sinks", o)
       /\ IF ~o.spawned THEN DtReturn(p, Err(CommandFailed(o.e)))
          ELSE IF ~o.success THEN DtReturn(p, Err(CommandFailed(o.stderr)))
          ELSE /\ stdout' = [stdout EXCEPT ![p] = o.stdout]
               /\ pc' = [pc EXCEPT ![p] = "dt_default"]
               /\ UNCHANGED <<envVars, pureVars, op, device_id, ret, name,
                              original_config, device, pending, result,
                              issued, before, reread, named, chain, prev>>

\* lines 74-78: the default sink detect_audio_devices compares names with
DefaultSinkRaw(o) == IF o.success THEN o.stdout ELSE <<>>
DefaultSinkOnce(o) ==
  IF prev[1] # NoValue /\ prev[1].op = "detect" THEN <<>>
  ELSE IF o.success THEN Trim(o.stdout) ELSE <<>>
DefaultSinkOf(o) == IF o.success THEN Trim(o.stdout) ELSE <<>>

\* lines 69-118: `pactl get-default-sink` of detect_audio_devices, and the
\* parse of the listing
DtGetDefaultSink(p) ==
  /\ pc[p] = "dt_default"
  /\ \E o \in GetDefaultSinkOutputs :
       /\ Read(p, "get-default-sink", o)
       /\ IF ~o.spawned THEN DtReturn(p, Err(CommandFailed(o.e)))
          ELSE DtReturn(p, Ok(ParseDevices(stdout[p], DefaultSinkOf(o))))

\* line 154: the argument of the set-default-sink that applies the change
ApplyArgId(dev) == dev.id
ApplyArg(dev) == dev.name

\* lines 161, 170-171: the error for a set-default-sink that failed
ApplyErrorFixedText(out) == CommandFailed(<<"set-default-sink failed">>)
ApplyError(out) ==
  IF ~out.spawned THEN CommandFailed(out.e) ELSE CommandFailed(out.stderr)

\* a restoring command that leaves alone a default another caller has set
\* since the call began
IssueIfMine(p, role, arg, oc) ==
  /\ default_sink' =
       IF role = "rollback" /\ default_sink # before[p] THEN default_sink
       ELSE DefaultAfter(arg, oc)
  /\ issued' = [issued EXCEPT ![p] =
                  Append(@, [role |-> role, arg |-> arg, outcome |-> oc])]

\* the command of caller p with that role and argument returns oc
Issue(p, role, arg, oc) ==
  /\ default_sink' = DefaultAfter(arg, oc)
  /\ issued' = [issued EXCEPT ![p] =
                  Append(@, [role |-> role, arg |-> arg, outcome |-> oc])]

\* an applying command that is issued again when it failed
AppliedAgain(p, oc) ==
  /\ Issue(p, "apply", ApplyArg(device[p]), oc)
  /\ IF ~oc.out.spawned \/ ~oc.out.success
     THEN /\ pending' = [pending EXCEPT ![p] = ApplyError(oc.out)]
          /\ pc' = [pc EXCEPT ![p] =
                      IF issued[p] = <<>> THEN "apply" ELSE "rollback"]
          /\ UNCHANGED ret
     ELSE /\ pc' = [pc EXCEPT ![p] = "gc_default"]
          /\ ret' = [ret EXCEPT ![p] = "verify"]
          /\ UNCHANGED pending

\* lines 156-172: what follows the applying command
Applied(p, oc) ==
  /\ Issue(p, "apply", ApplyArg(device[p]), oc)
  /\ IF ~oc.out.spawned \/ ~oc.out.success
     THEN /\ pending' = [pending EXCEPT ![p] = ApplyError(oc.out)]
          /\ pc' = [pc EXCEPT ![p] = "rollback"]
          /\ UNCHANGED ret
     ELSE /\ pc' = [pc EXCEPT ![p] = "gc_default"]
          /\ ret' = [ret EXCEPT ![p] = "verify"]
          /\ UNCHANGED pending

\* lines 153-172: `pactl set-default-sink <name>`: it fails, or for the name
\* of a sink it exits with success
Apply(p) ==
  /\ pc[p] = "apply"
  /\ \/ \E oc \in FailedOutcomes : Applied(p, oc)
     \/ /\ IsSink(ApplyArg(device[p]))
        /\ \E oc \in SucceededOutcomes : Applied(p, oc)
  /\ UNCHANGED <<sinks, pureVars, op, device_id, name, stdout,
                 original_config, device, result, before, reread, named,
                 chain, reads, prev>>

\* lines 159, 167, 179: the argument of the restoring set-default-sink
RollbackArgTarget(p) == device[p].name
RollbackArg(p) == original_config[p].device_id

\* a restoring command whose own failure replaces the error of the call
RollbackReports(p) ==
  /\ pc[p] = "rollback"
  /\ \/ \E oc \in FailedOutcomes :
          /\ Issue(p, "rollback", RollbackArg(p), oc)
          /\ Finish(p, Err(ApplyError(oc.out)), TRUE)
     \/ /\ IsSink(RollbackArg(p))
        /\ \E oc \in SucceededOutcomes :
             Issue(p, "rollback", RollbackArg(p), oc)
        /\ Finish(p, Err(pending[p]), TRUE)
  /\ UNCHANGED <<sinks, pureVars, op, device_id, ret, name, stdout,
                 original_config, device, pending, before, reread, named,
                 reads, prev>>

\* lines 158-161, 166-171, 178-184: the restoring `pactl set-default-sink`,
\* whose result is dropped, and the return of the error
Rollback(p) ==
  /\ pc[p] = "rollback"
  /\ \/ \E oc \in FailedOutcomes : Issue(p, "rollback", RollbackArg(p), oc)
     \/ /\ IsSink(RollbackArg(p))
        /\ \E oc \in SucceededOutcomes :
             Issue(p, "rollback", RollbackArg(p), oc)
  /\ Finish(p, Err(pending[p]), TRUE)
  /\ UNCHANGED <<sinks, pureVars, op, device_id, ret, name, stdout,
                 original_config, device, pending, before, reread, named,
                 reads, prev>>

Next ==
  \E p \in Callers :
    \/ \E id \in Identifiers : Configure(p, id)
    \/ GetCurrent(p)
    \/ Detect(p)
    \/ GcGetDefaultSink(p)
    \/ GcListSinks(p)
    \/ DtListSinks(p)
    \/ DtGetDefaultSink(p)
    \/ Apply(p)
    \/ Rollback(p)

Spec == Init /\ [][Next]_vars

\* an external command of caller p returns: Command::output blocks until
\* the child has exited, and the code from there to the next command or to
\* the return has no loop
CommandReturns(p) ==
  \/ GcGetDefaultSink(p)
  \/ GcListSinks(p)
  \/ DtListSinks(p)
  \/ DtGetDefaultSink(p)
  \/ Apply(p)
  \/ Rollback(p)

\* Spec with every external command returning
SpecLive == Spec /\ \A p \in Callers : WF_vars(CommandReturns(p))

(***************************************************************************)
(* validate_device_id on its own: every identifier over a small alphabet.  *)
(***************************************************************************)
MaxLen == 3
IdAlphabet == {"a", " ", ".", "/", "\\", NUL}
IdStrings == UNION {[1..k -> IdAlphabet] : k \in 0..MaxLen}

InitValidate ==
  /\ input \in IdStrings
  /\ answer = None
  /\ sinks = ListingTwo
  /\ default_sink = Some(DevB)
  /\ pc = [p \in Callers |-> "idle"]
  /\ op = [p \in Callers |-> "none"]
  /\ device_id = [p \in Callers |-> <<>>]
  /\ ret = [p \in Callers |-> "top"]
  /\ name = [p \in Callers |-> <<>>]
  /\ stdout = [p \in Callers |-> <<>>]
  /\ original_config = [p \in Callers |-> NoValue]
  /\ device = [p \in Callers |-> NoValue]
  /\ pending = [p \in Callers |-> NoValue]
  /\ result = [p \in Callers |-> NoValue]
  /\ issued = [p \in Callers |-> <<>>]
  /\ before = [p \in Callers |-> None]
  /\ reread = [p \in Callers |-> None]
  /\ named = [p \in Callers |-> FALSE]
  /\ chain = <<>>
  /\ reads = [p \in Callers |-> <<>>]
  /\ prev = [p \in Callers |-> NoValue]
  /\ keep = FALSE
  /\ FreshCollector

\* line 259: validate_device_id is called
Validate ==
  /\ answer = None
  /\ answer' = Some(validate_device_id(input))
  /\ UNCHANGED <<envVars, callVars, input, keep, metricVars>>

SpecValidate == InitValidate /\ [][Validate]_vars

\* the validator and one configure_speaker over the same identifier
ConfigureInput(p) ==
  /\ op[p] = "none"
  /\ Configure(p, input)

NextBoth ==
  \/ Validate
  \/ \E p \in Callers :
       \/ ConfigureInput(p)
       \/ GcGetDefaultSink(p)
       \/ GcListSinks(p)
       \/ DtListSinks(p)
       \/ DtGetDefaultSink(p)
       \/ Apply(p)
       \/ Rollback(p)

SpecBoth == InitValidate /\ [][NextBoth]_vars

(***************************************************************************)
(* The two reading operations over generated listings: every listing of up *)
(* to MaxBlocks blocks of a pool, and every one-sink listing whose Volume: *)
(* value is a text over a small alphabet.                                  *)
(***************************************************************************)
MaxBlocks == 2

\* a complete block, muted off, volume in range
PoolFull ==
  Block(<<"0">>, Line(NameLabel, DevA) \o Line(DescriptionLabel, <<"S", "p">>)
                 \o Line(MuteLabel, <<"n", "o">>)
                 \o Line(VolumeLabel, <<"5", "0", "%", " ", "/", " ", "5", "0", "%">>))
\* muted, the volume above 100 after a channel label with a colon
PoolLoud ==
  Block(<<"1">>, Line(NameLabel, DevB) \o Line(MuteLabel, Yes)
                 \o Line(VolumeLabel, <<"l", ":", " ", "9", " ", "/", " ", "1", "5", "0", "%", " ", "/", " ", "0", " ", "d", "B">>))
\* the id and the name of PoolFull again, with a negative volume
PoolAgain ==
  Block(<<"0">>, Line(NameLabel, DevA) \o Line(VolumeLabel, <<"-", "5", "%">>))
\* no id after the marker
PoolNoId ==
  Block(<<>>, Line(NameLabel, DevB) \o Line(VolumeLabel, <<"x", "%">>))
\* a Name: line without a value
PoolEmptyName == Block(<<"3">>, <<"\t">> \o NameLabel \o <<"\n">>)
\* no Name: line
PoolNoName == Block(<<"2">>, Line(DescriptionLabel, <<"H", "p">>))
\* nothing but the id line and the name
PoolBare == Block(<<"1">>, Line(NameLabel, DevB))
\* a volume that does not fit an i32
PoolHuge ==
  Block(<<"4">>, Line(NameLabel, DevA) \o Line(VolumeLabel, <<"9", "9", "9", "9", "9", "9", "9", "9", "9", "9", "9", "%">>))
\* nothing but the id line
PoolIdOnly == Block(<<"5">>, <<>>)
\* white space only after the marker
PoolBlank == SinkMarker \o <<" ", "\n", "\t", "\n">>
\* text that does not start with the marker
PoolText == <<"x", " ", "y", "\n">>
\* a sink whose description holds the marker
PoolMarker ==
  Block(<<"6">>, Line(NameLabel, DevB)
                 \o Line(DescriptionLabel, SinkMarker \o <<"6">>))

BlockPool ==
  {PoolFull, PoolLoud, PoolAgain, PoolNoId, PoolEmptyName, PoolNoName,
   PoolBare, PoolHuge, PoolIdOnly, PoolBlank, PoolText, PoolMarker}

RECURSIVE Concat(_)
Concat(texts) ==
  IF texts = <<>> THEN <<>> ELSE Head(texts) \o Concat(Tail(texts))

PoolListings ==
  {Concat(bs) : bs \in UNION {[1..k -> BlockPool] : k \in 0..MaxBlocks}}

VolumeAlphabet == {"1", "9", "-", "%", " ", "x"}
VolumeTexts == UNION {[1..k -> VolumeAlphabet] : k \in 0..MaxLen}
VolumeListings ==
  {Block(<<"0">>, Line(NameLabel, DevA) \o Line(VolumeLabel, v)) :
     v \in VolumeTexts}

InitRead ==
  /\ sinks \in PoolListings \cup VolumeListings
  /\ default_sink \in InitialDefaults
  /\ pc = [p \in Callers |-> "idle"]
  /\ op = [p \in Callers |-> "none"]
  /\ device_id = [p \in Callers |-> <<>>]
  /\ ret = [p \in Callers |-> "top"]
  /\ name = [p \in Callers |-> <<>>]
  /\ stdout = [p \in Callers |-> <<>>]
  /\ original_config = [p \in Callers |-> NoValue]
  /\ device = [p \in Callers |-> NoValue]
  /\ pending = [p \in Callers |-> NoValue]
  /\ result = [p \in Callers |-> NoValue]
  /\ issued = [p \in Callers |-> <<>>]
  /\ before = [p \in Callers |-> None]
  /\ reread = [p \in Callers |-> None]
  /\ named = [p \in Callers |-> FALSE]
  /\ chain = <<>>
  /\ reads = [p \in Callers |-> <<>>]
  /\ prev = [p \in Callers |-> NoValue]
  /\ keep = FALSE
  /\ FreshCollector
  /\ input = <<>>
  /\ answer = None

NextRead ==
  \E p \in Callers :
    \/ GetCurrent(p)
    \/ Detect(p)
    \/ GcGetDefaultSink(p)
    \/ GcListSinks(p)
    \/ DtListSinks(p)
    \/ DtGetDefaultSink(p)

SpecRead == InitRead /\ [][NextRead]_vars

(***************************************************************************)
(* The two reading operations called one after the other, each call with   *)
(* the call before it kept in prev.                                        *)
(***************************************************************************)
InitPairs ==
  /\ sinks \in Listings \cup BlockPool
  /\ default_sink \in InitialDefaults
  /\ pc = [p \in Callers |-> "idle"]
  /\ op = [p \in Callers |-> "none"]
  /\ device_id = [p \in Callers |-> <<>>]
  /\ ret = [p \in Callers |-> "top"]
  /\ name = [p \in Callers |-> <<>>]
  /\ stdout = [p \in Callers |-> <<>>]
  /\ original_config = [p \in Callers |-> NoValue]
  /\ device = [p \in Callers |-> NoValue]
  /\ pending = [p \in Callers |-> NoValue]
  /\ result = [p \in Callers |-> NoValue]
  /\ issued = [p \in Callers |-> <<>>]
  /\ before = [p \in Callers |-> None]
  /\ reread = [p \in Callers |-> None]
  /\ named = [p \in Callers |-> FALSE]
  /\ chain = <<>>
  /\ reads = [p \in Callers |-> <<>>]
  /\ prev = [p \in Callers |-> NoValue]
  /\ keep = TRUE
  /\ FreshCollector
  /\ input = <<>>
  /\ answer = None

SpecPairs == InitPairs /\ [][NextRead]_vars

(***************************************************************************)
(* parse_args_from_vec (src/lib/common.rs, lines 103-135).  A token is a   *)
(* sequence of characters; str::len counts the bytes of its UTF-8 form.    *)
(***************************************************************************)
\* one character that takes two bytes, e with an acute accent
EAcute == "e-acute"
Utf8Len(c) == IF c = EAcute THEN 2 ELSE 1

RECURSIVE StrLen(_)
StrLen(tok) == IF tok = <<>> THEN 0 ELSE Utf8Len(Head(tok)) + StrLen(Tail(tok))

True == <<"t", "r", "u", "e">>

\* HashMap::insert: the new value replaces the one the key had
Insert(parsed, key, value) == (key :> value) @@ parsed

\* what one turn of the loop leaves: the map and the index i
Turn(parsed, i) == [parsed |-> parsed, i |-> i]

\* lines 113 and 121: a next token that does not start with '-'
TakesNext(args, i) == i + 1 <= Len(args) /\ ~StartsWith(args[i + 1], <<"-">>)

\* lines 113-118 and 121-126: the key takes the next token, or "true"
KeyOnly(args, i, parsed, key) ==
  IF TakesNext(args, i)
  THEN Turn(Insert(parsed, key, args[i + 1]), i + 1)
  ELSE Turn(Insert(parsed, key, True), i)

\* lines 109-118: the token without its "--", eq_pos the place of its '='
LongKey(args, i, parsed, key_part, eq_pos) ==
  IF eq_pos # 0
  THEN Turn(Insert(parsed, SubSeq(key_part, 1, eq_pos - 1),
                   SubSeq(key_part, eq_pos + 1, Len(key_part))), i)
  ELSE KeyOnly(args, i, parsed, key_part)

\* line 119 without its length test
AnyLength(arg) == StartsWith(arg, <<"-">>)
\* line 119
IsShort(arg) == StartsWith(arg, <<"-">>) /\ StrLen(arg) = 2

\* lines 107-129: one token
OneToken(args, i, parsed) ==
  IF StartsWith(args[i], <<"-", "-">>)
  THEN LongKey(args, i, parsed, SubSeq(args[i], 3, Len(args[i])),
               FirstOccurrence(SubSeq(args[i], 3, Len(args[i])), <<"=">>))
  ELSE IF IsShort(args[i])
  THEN KeyOnly(args, i, parsed, Tail(args[i]))
  ELSE Turn(parsed, i)

\* lines 106-131: the loop from index i on
RECURSIVE ParseFrom(_, _)
ParseFrom(args, turn) ==
  IF turn.i > Len(args) THEN turn.parsed
  ELSE ParseFrom(args, Turn(OneToken(args, turn.i, turn.parsed).parsed,
                            OneToken(args, turn.i, turn.parsed).i + 1))

parse_args_from_vec(args) == ParseFrom(args, Turn(<<>>, 1))

\* the tokens of the argument vectors, and the vectors
MaxArgs == 3
ArgTokens ==
  {<<"-", "-", "k">>, <<"-", "-", "k", "=", "v">>, <<"-", "-", "k", "=">>,
   <<"-", "-", "=", "v">>, <<"-", "-">>, <<"-", "k">>, <<"-", "f">>,
   <<"-", EAcute>>, <<"-", "=">>, <<"-">>, <<"v">>, <<"-", "k", "k">>,
   <<"k", "=", "v">>}
ArgVectors == UNION {[1..n -> ArgTokens] : n \in 0..MaxArgs}

InitArgs ==
  /\ input \in ArgVectors
  /\ answer = None
  /\ sinks = ListingTwo
  /\ default_sink = None
  /\ pc = [p \in Callers |-> "idle"]
  /\ op = [p \in Callers |-> "none"]
  /\ device_id = [p \in Callers |-> <<>>]
  /\ ret = [p \in Callers |-> "top"]
  /\ name = [p \in Callers |-> <<>>]
  /\ stdout = [p \in Callers |-> <<>>]
  /\ original_config = [p \in Callers |-> NoValue]
  /\ device = [p \in Callers |-> NoValue]
  /\ pending = [p \in Callers |-> NoValue]
  /\ result = [p \in Callers |-> NoValue]
  /\ issued = [p \in Callers |-> <<>>]
  /\ before = [p \in Callers |-> None]
  /\ reread = [p \in Callers |-> None]
  /\ named = [p \in Callers |-> FALSE]
  /\ chain = <<>>
  /\ reads = [p \in Callers |-> <<>>]
  /\ prev = [p \in Callers |-> NoValue]
  /\ keep = FALSE
  /\ FreshCollector

\* line 103: parse_args_from_vec is called
ParseArgs ==
  /\ answer = None
  /\ answer' = Some(parse_args_from_vec(input))
  /\ UNCHANGED <<envVars, callVars, input, keep, metricVars>>

SpecArgs == InitArgs /\ [][ParseArgs]_vars

(***************************************************************************)
(* extract_field on its own: texts of up to MaxLines lines of a pool, and  *)
(* labels with and without a colon.                                        *)
(***************************************************************************)
MaxLines == 3
FieldLinePool ==
  {<<"N", ":", "a">>, <<" ", "N", ":", " ", "b", " ">>, <<"N", ":">>,
   <<"N">>, <<"x", "N", ":", "c">>, <<>>, <<":", "d">>,
   <<"\t", "N", ":", "a", ":", "e", "\r">>}
FieldLabels == {<<"N", ":">>, <<"N">>, <<":">>}
\* every line ended by a newline, and a single line without one
FieldTexts ==
  {Concat([i \in 1..Len(ls) |-> ls[i] \o <<"\n">>]) :
     ls \in UNION {[1..k -> FieldLinePool] : k \in 0..MaxLines}}
  \cup FieldLinePool

InitField ==
  /\ input \in [text : FieldTexts, field : FieldLabels]
  /\ answer = None
  /\ sinks = ListingTwo
  /\ default_sink = None
  /\ pc = [p \in Callers |-> "idle"]
  /\ op = [p \in Callers |-> "none"]
  /\ device_id = [p \in Callers |-> <<>>]
  /\ ret = [p \in Callers |-> "top"]
  /\ name = [p \in Callers |-> <<>>]
  /\ stdout = [p \in Callers |-> <<>>]
  /\ original_config = [p \in Callers |-> NoValue]
  /\ device = [p \in Callers |-> NoValue]
  /\ pending = [p \in Callers |-> NoValue]
  /\ result = [p \in Callers |-> NoValue]
  /\ issued = [p \in Callers |-> <<>>]
  /\ before = [p \in Callers |-> None]
  /\ reread = [p \in Callers |-> None]
  /\ named = [p \in Callers |-> FALSE]
  /\ chain = <<>>
  /\ reads = [p \in Callers |-> <<>>]
  /\ prev = [p \in Callers |-> NoValue]
  /\ keep = FALSE
  /\ FreshCollector

\* line 291: extract_field is called
ExtractField ==
  /\ answer = None
  /\ answer' = Some(extract_field(input.text, input.field))
  /\ UNCHANGED <<envVars, callVars, input, keep, metricVars>>

SpecField == InitField /\ [][ExtractField]_vars

(***************************************************************************)
(* Two independent callers of configure_speaker, one call each: the        *)
(* functions take no lock and share only the sound server.                 *)
(***************************************************************************)
TwoCallers == {1, 2}
Targets == {DevA, DevB}

InitTwo ==
  /\ sinks = ListingTwo
  /\ default_sink = Some(DevA)
  /\ pc = [p \in TwoCallers |-> "idle"]
  /\ op = [p \in TwoCallers |-> "none"]
  /\ device_id = [p \in TwoCallers |-> <<>>]
  /\ ret = [p \in TwoCallers |-> "top"]
  /\ name = [p \in TwoCallers |-> <<>>]
  /\ stdout = [p \in TwoCallers |-> <<>>]
  /\ original_config = [p \in TwoCallers |-> NoValue]
  /\ device = [p \in TwoCallers |-> NoValue]
  /\ pending = [p \in TwoCallers |-> NoValue]
  /\ result = [p \in TwoCallers |-> NoValue]
  /\ issued = [p \in TwoCallers |-> <<>>]
  /\ before = [p \in TwoCallers |-> None]
  /\ reread = [p \in TwoCallers |-> None]
  /\ named = [p \in TwoCallers |-> FALSE]
  /\ chain = <<>>
  /\ reads = [p \in TwoCallers |-> <<>>]
  /\ prev = [p \in TwoCallers |-> NoValue]
  /\ keep = FALSE
  /\ FreshCollector
  /\ input = <<>>
  /\ answer = None

\* line 126: the one call of caller p
ConfigureOnce(p) ==
  /\ op[p] = "none"
  /\ \E id \in Targets : Configure(p, id)

NextTwo ==
  \E p \in TwoCallers :
    \/ ConfigureOnce(p)
    \/ GcGetDefaultSink(p)
    \/ GcListSinks(p)
    \/ DtListSinks(p)
    \/ DtGetDefaultSink(p)
    \/ Apply(p)
    \/ Rollback(p)

SpecTwo == InitTwo /\ [][NextTwo]_vars

(***************************************************************************)
(* MetricsCollector (src/lib/logger.rs, lines 244-270): threads that call  *)
(* increment and get on one collector.  RwLock::write waits until no other *)
(* thread holds the lock; the guard is dropped when increment returns.     *)
(***************************************************************************)
MaxIncrements == 3

\* the increment calls begun so far
Begun == Len(done) + Cardinality({t \in Threads : at[t] # "idle"})

\* an increment that does not wait for the lock
IncrementNoLock(t, k) ==
  /\ at[t] = "idle"
  /\ Begun < MaxIncrements
  /\ writer' = t
  /\ at' = [at EXCEPT ![t] = "locked"]
  /\ of_key' = [of_key EXCEPT ![t] = k]
  /\ UNCHANGED <<envVars, callVars, input, answer, keep, metrics, current,
                 done, got>>

\* line 262: increment(k) is called and takes the write lock
IncrementWrite(t, k) ==
  /\ at[t] = "idle"
  /\ Begun < MaxIncrements
  /\ writer = 0
  /\ writer' = t
  /\ at' = [at EXCEPT ![t] = "locked"]
  /\ of_key' = [of_key EXCEPT ![t] = k]
  /\ UNCHANGED <<envVars, callVars, input, answer, keep, metrics, current,
                 done, got>>

\* HashMap::get(..).copied().unwrap_or(0.0)
ValueOr0(map, k) == IF k \in DOMAIN map THEN map[k] ELSE 0

\* line 263: the read of the current value
IncrementGet(t) ==
  /\ at[t] = "locked"
  /\ current' = [current EXCEPT ![t] = ValueOr0(metrics, of_key[t])]
  /\ at' = [at EXCEPT ![t] = "read"]
  /\ UNCHANGED <<envVars, callVars, input, answer, keep, metrics, writer,
                 of_key, done, got>>

\* lines 264-266: the insert, the drop of the guard and the return
IncrementInsert(t) ==
  /\ at[t] = "read"
  /\ metrics' = Insert(metrics, of_key[t], current[t] + 1)
  /\ writer' = 0
  /\ at' = [at EXCEPT ![t] = "idle"]
  /\ done' = Append(done, [thread |-> t, key |-> of_key[t]])
  /\ UNCHANGED <<envVars, callVars, input, answer, keep, of_key, current, got>>

\* the calls of increment(k) that have returned
Calls(k) == Cardinality({i \in 1..Len(done) : done[i].key = k})

\* lines 268-270: get(k), under the read lock; with the value the number of
\* increment(k) calls returned by then is noted
Get(t, k) ==
  /\ at[t] = "idle"
  /\ writer = 0
  /\ got' = [got EXCEPT ![t] =
               Some([key |-> k,
                     value |-> IF k \in DOMAIN metrics THEN Some(metrics[k])
                               ELSE None,
                     calls |-> Calls(k)])]
  /\ UNCHANGED <<envVars, callVars, input, answer, keep, metrics, writer, at,
                 of_key, current, done>>

InitMetrics ==
  /\ sinks = ListingTwo
  /\ default_sink = None
  /\ pc = [p \in Callers |-> "idle"]
  /\ op = [p \in Callers |-> "none"]
  /\ device_id = [p \in Callers |-> <<>>]
  /\ ret = [p \in Callers |-> "top"]
  /\ name = [p \in Callers |-> <<>>]
  /\ stdout = [p \in Callers |-> <<>>]
  /\ original_config = [p \in Callers |-> NoValue]
  /\ device = [p \in Callers |-> NoValue]
  /\ pending = [p \in Callers |-> NoValue]
  /\ result = [p \in Callers |-> NoValue]
  /\ issued = [p \in Callers |-> <<>>]
  /\ before = [p \in Callers |-> None]
  /\ reread = [p \in Callers |-> None]
  /\ named = [p \in Callers |-> FALSE]
  /\ chain = <<>>
  /\ reads = [p \in Callers |-> <<>>]
  /\ prev = [p \in Callers |-> NoValue]
  /\ input = <<>>
  /\ answer = None
  /\ keep = FALSE
  /\ FreshCollector

NextMetrics ==
  \E t \in Threads :
    \/ \E k \in Keys : IncrementWrite(t, k)
    \/ IncrementGet(t)
    \/ IncrementInsert(t)
    \/ \E k \in Keys : Get(t, k)

SpecMetrics == InitMetrics /\ [][NextMetrics]_vars

(***************************************************************************)
(* The claims.  The single caller of Spec is caller 1.                     *)
(***************************************************************************)
Returned(p, operation) ==
  pc[p] = "idle" /\ op[p] = operation /\ result[p] # NoValue

\* the set-default-sink exited with success
ExitedOk(cmd) == cmd.outcome.out.spawned /\ cmd.outcome.out.success

\* the set-default-sink exited with success and the default became its
\* argument
TookEffect(cmd) == ExitedOk(cmd) /\ cmd.outcome.applied

RollbacksOf(p) == {i \in 1..Len(issued[p]) : issued[p][i].role = "rollback"}

\* C1: when configure returns an error and every rollback command it
\* issued succeeded, the default sink is the one before the call.
C1_RestoredOnFailure ==
  (/\ Returned(1, "configure")
   /\ ~result[1].ok
   /\ \A i \in RollbacksOf(1) : TookEffect(issued[1][i]))
  => default_sink = before[1]

\* C2: on every failure path taken after the set-default-sink that applies
\* the change was issued, configure issues a rollback set-default-sink with
\* the snapshot's device_id before it returns the error.
C2_RollbackOnEveryFailure ==
  (Returned(1, "configure") /\ ~result[1].ok /\ issued[1] # <<>>)
  => \E i \in RollbacksOf(1) :
       issued[1][i].arg = original_config[1].device_id

\* C3: configure returns success only if the set-default-sink exited with
\* success and the config read back names the target device; it has then
\* issued no rollback command.
C3_SuccessOnlyIfVerified ==
  (Returned(1, "configure") /\ result[1].ok)
  => /\ Len(issued[1]) = 1
     /\ issued[1][1].role = "apply"
     /\ ExitedOk(issued[1][1])
     /\ reread[1].some
     /\ reread[1].v.device_id = device[1].name

C3_Witness ==
  Returned(1, "configure") /\ result[1].ok /\ device_id[1] = DevB

\* C4: after configure(d.name) succeeded for a detected device d, every
\* get_current that succeeds returns d.name as device_id, until the default
\* device is changed again.
C4_ConfigPersists ==
  (Returned(1, "get_current") /\ result[1].ok /\ chain # <<>>)
  => result[1].v.device_id = chain[Len(chain)]

\* C5: configure(A.name), configure(B.name), configure(A.name) for distinct
\* detected devices A and B, each succeeding: get_current returns B.name
\* after the second call and A.name after the third.
C5_Reversible ==
  (Returned(1, "get_current") /\ result[1].ok)
  => /\ (Len(chain) >= 2 /\ chain[Len(chain)] # chain[Len(chain) - 1])
          => result[1].v.device_id = chain[Len(chain)]
     /\ (Len(chain) = 3 /\ chain[1] = chain[3] /\ chain[2] # chain[1])
          => result[1].v.device_id = chain[1]

\* the identifier breaks the format rules of configure_speaker
Malformed(id) ==
  \/ id = <<>>
  \/ \E i \in 1..Len(id) : id[i] = NUL
  \/ \E i \in 1..(Len(id) - 1) : id[i] = "." /\ id[i + 1] = "."

\* the identifier is the id or the name of no sink of the listing
Unmatched(id) ==
  \A i \in 1..Len(ParseDevices(sinks, <<>>)) :
    /\ ParseDevices(sinks, <<>>)[i].id # id
    /\ ParseDevices(sinks, <<>>)[i].name # id

\* C6 as stated: configure with an empty identifier, one with a null byte
\* or "..", or one that matches no device returns InvalidState or
\* DeviceNotFound, issues no set-default-sink and leaves the default as it
\* was.
C6_InvalidIdentifierKinds ==
  (/\ Returned(1, "configure")
   /\ Malformed(device_id[1]) \/ Unmatched(device_id[1]))
  => /\ ~result[1].ok
     /\ result[1].e.kind \in {"InvalidState", "DeviceNotFound"}
     /\ issued[1] = <<>>
     /\ default_sink = before[1]

\* the errors the two reads of configure_speaker can return
ReadErrors ==
  {CommandFailed(t) : t \in SpawnErrors \cup StderrTexts}
  \cup {InvalidState(MsgNoDefaultSink)}
  \cup (IF before[1].some THEN {DeviceNotFound(before[1].v)} ELSE {})

\* C6 as amended: such a configure returns an error, issues no
\* set-default-sink and leaves the default as it was; the error is
\* InvalidState for a malformed identifier, and for a well-formed one that
\* matches no device it is DeviceNotFound with the identifier or the error
\* of the snapshot or detection read that failed.
C6_InvalidIdentifierRejected ==
  (/\ Returned(1, "configure")
   /\ Malformed(device_id[1]) \/ Unmatched(device_id[1]))
  => /\ ~result[1].ok
     /\ issued[1] = <<>>
     /\ default_sink = before[1]
     /\ IF Malformed(device_id[1])
        THEN result[1].e.kind = "InvalidState" /\ original_config[1] = NoValue
        ELSE result[1].e \in {DeviceNotFound(device_id[1])} \cup ReadErrors

C6_Witness ==
  /\ Returned(1, "configure")
  /\ device_id[1] = <<"x">>
  /\ result[1] = Err(DeviceNotFound(<<"x">>))
  /\ original_config[1] # NoValue

\* C7: the set-default-sink that applies the change carries the resolved
\* device's name and not its id, also when the caller passed the id.
C7_ApplyCarriesName ==
  \A p \in Callers : \A i \in 1..Len(issued[p]) :
    issued[p][i].role = "apply"
    => /\ issued[p][i].arg = device[p].name
       /\ device[p].name # device[p].id => issued[p][i].arg # device[p].id

C7_Witness ==
  /\ issued[1] # <<>>
  /\ device_id[1] = <<"0">>
  /\ device[1].id = <<"0">>
  /\ issued[1][1].arg = DevA

\* the diagnostic text of a set-default-sink that failed
Diagnostic(out) == IF out.spawned THEN out.stderr ELSE out.e

\* C8: when the set-default-sink that applies the change cannot be spawned
\* or exits non-success, configure issues exactly one rollback
\* set-default-sink with the snapshot's device_id and returns CommandFailed
\* with the diagnostic text of the failed command, whatever the rollback
\* returned.
C8_ApplyFailure ==
  (/\ Returned(1, "configure")
   /\ issued[1] # <<>>
   /\ ~ExitedOk(issued[1][1]))
  => /\ Len(issued[1]) = 2
     /\ issued[1][2].role = "rollback"
     /\ issued[1][2].arg = original_config[1].device_id
     /\ result[1] = Err(CommandFailed(Diagnostic(issued[1][1].outcome.out)))

C8_Witness ==
  /\ Returned(1, "configure")
  /\ Len(issued[1]) = 2
  /\ ~issued[1][1].outcome.out.spawned
  /\ issued[1][2].outcome.out.spawned
  /\ ~issued[1][2].outcome.out.success
  /\ result[1].e.text = issued[1][1].outcome.out.e

\* C9: when the set-default-sink exits with success but the config read
\* back names another device than the target, configure issues a rollback
\* set-default-sink with the snapshot's device_id and returns
\* InvalidState("Configuration not applied correctly").
C9_VerifyMismatch ==
  (/\ Returned(1, "configure")
   /\ issued[1] # <<>>
   /\ ExitedOk(issued[1][1])
   /\ reread[1].some
   /\ reread[1].v.device_id # device[1].name)
  => /\ Len(issued[1]) = 2
     /\ issued[1][2].role = "rollback"
     /\ issued[1][2].arg = original_config[1].device_id
     /\ result[1] = Err(InvalidState(MsgNotApplied))

C9_Witness ==
  /\ Returned(1, "configure")
  /\ reread[1].some
  /\ reread[1].v.device_id # device[1].name
  /\ Len(issued[1]) = 2
  /\ original_config[1].device_id # device[1].name

\* C10: validate_device_id returns false exactly for the empty string and
\* for a string with a null byte, "..", '/', '\' or a space in it.
C10_ValidateExact ==
  answer.some
  => (answer.v = FALSE
      <=> \/ input = <<>>
          \/ \E i \in 1..Len(input) : input[i] \in {NUL, "/", "\\", " "}
          \/ \E i \in 1..(Len(input) - 1) :
               input[i] = "." /\ input[i + 1] = ".")

C10_Witness ==
  answer = Some(FALSE) /\ input = <<"a", " ">>

\* the read commands of caller p's call that could not be spawned
SpawnFailures(p) == {i \in 1..Len(reads[p]) : reads[p][i].how = "spawn"}

MaxOrZero(S) == IF S = {} THEN 0 ELSE CHOOSE i \in S : \A j \in S : j <= i

\* the text preceding the first '%' of a text, all of it when it has none
UpTo(text, k) == IF k = 0 THEN text ELSE SubSeq(text, 1, k - 1)
BeforePercent(text) ==
  UpTo(text, MinOrZero({i \in 1..Len(text) : text[i] = "%"}))

\* the last whitespace-delimited token of a text: it ends at the last
\* character that is not white space and starts after the white space
\* before it; empty when the text has no token
TokenEndingAt(text, e) ==
  SubSeq(text, MaxOrZero({i \in 1..e : IsWhitespace(text[i])}) + 1, e)
LastToken(text) ==
  TokenEndingAt(text, MaxOrZero({i \in 1..Len(text) : ~IsWhitespace(text[i])}))

\* the volume the Volume: field of a block stands for
Bounded(v) == IF ~v.some THEN 100
              ELSE IF v.v < 0 THEN 0 ELSE IF v.v > 100 THEN 100 ELSE v.v
VolumeFor(field) ==
  IF ~field.some THEN 100
  ELSE Bounded(ParseI32(LastToken(BeforePercent(field.v))))

\* the first block of the listing whose Name: field is that name
NamedBlockAt(blocks, n) ==
  blocks[MinOrZero({i \in 1..Len(blocks) :
                      extract_field(blocks[i], NameLabel) = Some(n)})]
NamedBlock(n) == NamedBlockAt(Split(sinks, SinkMarker), n)

\* C12: the volume of a successful get_current is clamp(v, 0, 100), v being
\* the integer parsed from the last whitespace-delimited token of the text
\* before the first '%' of the default device's Volume: field, and 100 when
\* the field is absent or the token is no i32; so it lies in 0..100
C12_Volume ==
  (Returned(1, "get_current") /\ result[1].ok) =>
    /\ result[1].v.volume =
         VolumeFor(extract_field(NamedBlock(result[1].v.device_id),
                                 VolumeLabel))
    /\ result[1].v.volume \in 0..100

\* a volume of 150% is returned as 100
C12_Witness ==
  /\ Returned(1, "get_current") /\ result[1].ok
  /\ sinks = PoolLoud
  /\ result[1].v.volume = 100

\* the listing the second command of a get_current handed over
ListingRead(p) == IF reads[p][2].how = "ok" THEN sinks ELSE <<>>

\* no block of a listing has a Name: field equal to n
Unlisted(blocks, n) ==
  \A i \in 1..Len(blocks) : extract_field(blocks[i], NameLabel) # Some(n)

\* C13: get_current returns CommandFailed when a command cannot be spawned,
\* InvalidState("No default sink configured") when the default-sink query
\* exits with a failure, and DeviceNotFound of the default device's name
\* when no block of the listing has that name in its Name: field; none of
\* these returns a SpeakerConfig
C13_ReadFailures ==
  Returned(1, "get_current") =>
    /\ SpawnFailures(1) # {} =>
         \E e \in SpawnErrors : result[1] = Err(CommandFailed(e))
    /\ reads[1][1].how = "exit" =>
         result[1] = Err(InvalidState(MsgNoDefaultSink))
    /\ (/\ Len(reads[1]) = 2
        /\ SpawnFailures(1) = {}
        /\ Unlisted(Split(ListingRead(1), SinkMarker), default_sink.v)) =>
         result[1] = Err(DeviceNotFound(default_sink.v))

\* the default sink b has no block in a listing that was read
C13_Witness ==
  /\ Returned(1, "get_current")
  /\ reads[1][1].how = "ok" /\ reads[1][2].how = "ok"
  /\ sinks = PoolFull
  /\ result[1] = Err(DeviceNotFound(DevB))

\* caller p has finished a call of the operation, and the call before it
\* was one of the same operation
Twice(p, operation) ==
  /\ Returned(p, operation)
  /\ prev[p] # NoValue
  /\ prev[p].op = operation

FirstLine(text) == UpTo(text, MinOrZero({i \in 1..Len(text) : text[i] = "\n"}))
TokenFrom(text, b) ==
  IF b = 0 THEN <<>>
  ELSE UpTo(SubSeq(text, b, Len(text)),
            MinOrZero({i \in 1..(Len(text) - b + 1) :
                         IsWhitespace(text[b + i - 1])}))
FirstToken(text) ==
  TokenFrom(text, MinOrZero({i \in 1..Len(text) : ~IsWhitespace(text[i])}))

\* a block qualifies when it is not white space only and the first line of
\* it has a token
Qualifies(block) ==
  /\ \E i \in 1..Len(block) : ~IsWhitespace(block[i])
  /\ FirstToken(FirstLine(block)) # <<>>

\* the ids of the qualifying blocks, in the order of the blocks
RECURSIVE QualifyingIds(_)
QualifyingIds(blocks) ==
  IF blocks = <<>> THEN <<>>
  ELSE (IF Qualifies(Head(blocks))
        THEN <<FirstToken(FirstLine(Head(blocks)))>> ELSE <<>>)
       \o QualifyingIds(Tail(blocks))

IdsOf(devices) == [k \in 1..Len(devices) |-> devices[k].id]

\* detect got its listing and an answer, good or bad, to its query
DetectRead(p) ==
  /\ Returned(p, "detect")
  /\ Len(reads[p]) = 2
  /\ reads[p][1].how = "ok"
  /\ reads[p][2].how # "spawn"

\* C15: detect returns one device for each block whose first line has a
\* non-empty first token, in the order of the blocks, and none for a block
\* of white space or a block without an id; it returns a list, empty when
\* no block qualifies, never an error for the listing
C15_OnePerBlock ==
  DetectRead(1) =>
    /\ result[1].ok
    /\ IdsOf(result[1].v) = QualifyingIds(Split(sinks, SinkMarker))

\* one block is dropped for its empty id and the next one is kept
C15_Witness ==
  /\ DetectRead(1)
  /\ sinks = PoolNoId \o PoolLoud
  /\ IdsOf(result[1].v) = << <<"1">> >>

\* the block has a line that, after its leading white space, starts with
\* the label: the label stands at a position with nothing but white space
\* between it and the start of its line
StartsLine(block, i) ==
  \A j \in 1..(i - 1) :
    (\A m \in j..(i - 1) : block[m] # "\n") => IsWhitespace(block[j])
HasLine(block, label) ==
  \E i \in Occurrences(block, label) : StartsLine(block, i)

QualifyingBlocks(blocks) == SelectSeq(blocks, Qualifies)

\* the name and the description a block stands for
NameFor(block) ==
  IF HasLine(block, NameLabel) THEN extract_field(block, NameLabel).v
  ELSE SinkPrefix \o FirstToken(FirstLine(block))
DescriptionFor(block) ==
  IF HasLine(block, DescriptionLabel)
  THEN extract_field(block, DescriptionLabel).v
  ELSE NameFor(block)

NamesAsClaimed(devices, blocks) ==
  \A k \in 1..Len(devices) :
    /\ devices[k].name = NameFor(blocks[k])
    /\ devices[k].description = DescriptionFor(blocks[k])

\* C16: a device's name is the value of its block's Name: field, or
\* "sink-<id>" when the block has no Name: line; its description is the
\* value of the Description: field, or the device's name, synthesized or
\* not, when the block has no Description: line
C16_NameAndDescription ==
  DetectRead(1) =>
    NamesAsClaimed(result[1].v, QualifyingBlocks(Split(sinks, SinkMarker)))

\* a block of nothing but the id line: both fields fall back
C16_Witness ==
  /\ DetectRead(1)
  /\ sinks = PoolIdOnly
  /\ result[1].v[1].name = SinkPrefix \o <<"5">>
  /\ result[1].v[1].description = SinkPrefix \o <<"5">>

\* the trimmed output of the default-sink query of a detect: the name of
\* the default sink, and nothing when the query exited with a failure
TrimmedAnswer(p) == IF reads[p][2].how = "ok" THEN default_sink.v ELSE <<>>

\* C17: a device of detect has is_default true exactly when its name equals
\* the trimmed output of the current-default query, which for a query that
\* succeeds is the name of the subsystem's default sink
C17_DefaultFlag ==
  DetectRead(1) =>
    \A k \in 1..Len(result[1].v) :
      result[1].v[k].is_default = (result[1].v[k].name = TrimmedAnswer(1))

\* of two sinks the second is the default
C17_Witness ==
  /\ DetectRead(1)
  /\ sinks = PoolFull \o PoolLoud
  /\ default_sink = Some(DevB)
  /\ ~result[1].v[1].is_default
  /\ result[1].v[2].is_default

\* C18: every device detect returns has a non-empty id and a non-empty
\* name, whatever the listing
C18_Complete ==
  DetectRead(1) =>
    \A k \in 1..Len(result[1].v) :
      result[1].v[k].id # <<>> /\ result[1].v[k].name # <<>>

\* every command of a call exited with success
Answered(rs) == \A i \in 1..Len(rs) : rs[i].how = "ok"

\* the devices of a list that are flagged as the default
DefaultsOf(devices) == {k \in 1..Len(devices) : devices[k].is_default}

\* caller p has finished a get_current that followed a detect which
\* returned a list, the commands of both calls having succeeded
ReadAfterDetect(p) ==
  /\ Returned(p, "get_current")
  /\ prev[p] # NoValue
  /\ prev[p].op = "detect"
  /\ prev[p].result.ok
  /\ Answered(prev[p].reads) /\ Answered(reads[p])

C20_Unique ==
  DetectRead(1) =>
    \A j, k \in 1..Len(result[1].v) :
      j # k => /\ result[1].v[j].name # result[1].v[k].name
               /\ result[1].v[j].id # result[1].v[k].id

\* the positions of the devices whose id or whose name is the identifier
Matches(devices, id) ==
  {i \in 1..Len(devices) : devices[i].id = id \/ devices[i].name = id}

\* the devices of the listing as detect finds them, the default flag apart
Detected == ParseDevices(sinks, <<>>)
SameDevice(d, e) ==
  d.id = e.id /\ d.name = e.name /\ d.description = e.description

\* the configure of caller p got as far as the lookup of lines 147-150: its
\* snapshot was read and its detect got the listing and an answer
Looked(p) ==
  /\ op[p] = "configure"
  /\ Len(reads[p]) >= 4
  /\ reads[p][3].how = "ok"
  /\ reads[p][4].how # "spawn"

\* C21: configure takes the first device, in detection order, whose id or
\* whose name equals the identifier; when none does it fails with
\* DeviceNotFound of the identifier and issues no set-default-sink
C21_FirstMatch ==
  Looked(1) =>
    IF Matches(Detected, device_id[1]) = {}
    THEN /\ device[1] = NoValue
         /\ issued[1] = <<>>
         /\ Returned(1, "configure")
         /\ result[1] = Err(DeviceNotFound(device_id[1]))
    ELSE /\ device[1] # NoValue
         /\ SameDevice(device[1],
                       Detected[MinOrZero(Matches(Detected, device_id[1]))])

\* "1" is the id of the first device and the name of the second
C21_Witness ==
  /\ Looked(1)
  /\ sinks = ListingCollide
  /\ device_id[1] = <<"1">>
  /\ Matches(Detected, device_id[1]) = {1, 2}
  /\ device[1].name = DevA

\* how far caller p is in the fixed order of the commands of a call
Position(p) ==
  CASE pc[p] = "gc_default" /\ ret[p] # "verify" -> 1
    [] pc[p] = "gc_list" /\ ret[p] # "verify" -> 2
    [] pc[p] = "dt_list" -> 3
    [] pc[p] = "dt_default" -> 4
    [] pc[p] = "apply" -> 5
    [] pc[p] = "gc_default" /\ ret[p] = "verify" -> 6
    [] pc[p] = "gc_list" /\ ret[p] = "verify" -> 7
    [] pc[p] = "rollback" -> 8
    [] OTHER -> 0

\* a step inside a call moves the caller forward
Advances(p) ==
  (pc[p] # "idle" /\ pc'[p] # "idle") => Position(p)' > Position(p)

\* C22: provided every external command returns, every call of detect,
\* get_current and configure comes to an end with one result, a value or
\* an error, a configure whose identifier matches no device included; and
\* every step inside a call moves forward in the order of the commands, so
\* no call loops or retries
C22_Terminates ==
  /\ \A p \in Callers :
       (pc[p] # "idle") ~> (pc[p] = "idle" /\ result[p] # NoValue)
  /\ [][\A p \in Callers : Advances(p)]_vars

\* a configure whose identifier matches no device has returned its error
C22_Witness ==
  /\ Returned(1, "configure")
  /\ device_id[1] = <<"x">>
  /\ Len(reads[1]) = 4
  /\ result[1] = Err(DeviceNotFound(<<"x">>))

(***************************************************************************)
(* parse_args_from_vec                                                     *)
(***************************************************************************)
IsLong(tok) == Len(tok) >= 2 /\ tok[1] = "-" /\ tok[2] = "-"
HasEquals(tok) == \E j \in 3..Len(tok) : tok[j] = "="
EqualsAt(tok) == CHOOSE j \in 3..Len(tok) : tok[j] = "=" /\ \A h \in 3..(j - 1) : tok[h] # "="
\* a dash and one more, counted in bytes or in characters
IsShortBy(tok, bytes) ==
  /\ ~IsLong(tok)
  /\ tok # <<>> /\ tok[1] = "-"
  /\ (IF bytes THEN StrLen(tok) ELSE Len(tok)) = 2
KeyPlaces(args, bytes) ==
  {i \in 1..Len(args) : IsLong(args[i]) \/ IsShortBy(args[i], bytes)}
KeyAt(args, i) ==
  IF IsLong(args[i])
  THEN IF HasEquals(args[i]) THEN SubSeq(args[i], 3, EqualsAt(args[i]) - 1)
       ELSE SubSeq(args[i], 3, Len(args[i]))
  ELSE SubSeq(args[i], 2, Len(args[i]))
IsValueAt(args, i) == i <= Len(args) /\ (args[i] = <<>> \/ args[i][1] # "-")
ValueAt(args, i) ==
  IF IsLong(args[i]) /\ HasEquals(args[i])
  THEN SubSeq(args[i], EqualsAt(args[i]) + 1, Len(args[i]))
  ELSE IF IsValueAt(args, i + 1) THEN args[i + 1] ELSE <<"t", "r", "u", "e">>
LastPlace(args, bytes, key) ==
  MaxOrZero({i \in KeyPlaces(args, bytes) : KeyAt(args, i) = key})
\* the entries the rules give, a later token replacing an earlier one's key
EntriesBy(args, bytes) ==
  [key \in {KeyAt(args, i) : i \in KeyPlaces(args, bytes)} |->
     ValueAt(args, LastPlace(args, bytes, key))]
\* the tokens taken as the value of the key before them
ConsumedPlaces(args, bytes) ==
  {i \in 2..Len(args) :
     /\ (i - 1) \in KeyPlaces(args, bytes)
     /\ ~(IsLong(args[i - 1]) /\ HasEquals(args[i - 1]))
     /\ IsValueAt(args, i)}
ParsedAs(bytes) ==
  answer # None =>
    /\ answer.v = EntriesBy(input, bytes)
    /\ ConsumedPlaces(input, bytes) \cap KeyPlaces(input, bytes) = {}
    /\ Cardinality(DOMAIN answer.v) <= Len(input)

\* C23 as stated: "--key=value" gives key->value, "--key" before a token
\* that does not start with '-' gives key->that token, any other "--key"
\* gives key->"true", a "-k" of two characters goes the way of "--k"; a
\* token taken as a value is never a key, and the entries never outnumber
\* the tokens.
C23_ParseArgs == ParsedAs(FALSE)

\* C23 amended: the same, where the "-k" form is a token of two bytes, so
\* that a dash before one character of more than one byte is passed over.
C23_ParseArgsBytes == ParsedAs(TRUE)

C23_Witness ==
  /\ answer # None
  /\ input = << <<"-", "f">>, <<"v">>, <<"-", "-", "k", "=", "v">> >>
  /\ answer.v = (<<"f">> :> <<"v">>) @@ (<<"k">> :> <<"v">>)

(***************************************************************************)
(* The order of the steps of configure                                     *)
(***************************************************************************)
\* the read commands of a whole configure: snapshot, resolution, re-read
FixedReads ==
  <<"get-default-sink", "list sinks", "list sinks", "get-default-sink",
    "get-default-sink", "list sinks">>
CommandsRead(p) == [i \in 1..Len(reads[p]) |-> reads[p][i].cmd]
AppliesOf(p) == {i \in 1..Len(issued[p]) : issued[p][i].role = "apply"}
\* the step caller p is at: snapshot 2, resolution 3, set-default 4,
\* re-read and verification 5, restoring 6; validation, step 1, is over
\* when the call has been entered
StepOf(p) ==
  CASE pc[p] \in {"gc_default", "gc_list"} /\ ret[p] = "snapshot" -> 2
    [] pc[p] \in {"dt_list", "dt_default"} -> 3
    [] pc[p] = "apply" -> 4
    [] pc[p] \in {"gc_default", "gc_list"} /\ ret[p] = "verify" -> 5
    [] pc[p] = "rollback" -> 6
    [] OTHER -> 0
StepsInOrder(p) ==
  (op'[p] = "configure" /\ pc'[p] # "idle") =>
    IF pc[p] = "idle" THEN StepOf(p)' = 2
    ELSE \/ StepOf(p)' \in {StepOf(p), StepOf(p) + 1}
         \/ StepOf(p) \in {4, 5} /\ StepOf(p)' = 6
StepsOnce(p) ==
  op[p] = "configure" =>
    /\ InlineCheck(device_id[p]).some =>
         reads[p] = <<>> /\ issued[p] = <<>> /\ pc[p] = "idle"
    /\ Len(reads[p]) <= Len(FixedReads)
    /\ CommandsRead(p) = SubSeq(FixedReads, 1, Len(reads[p]))
    /\ Cardinality(AppliesOf(p)) <= 1
    /\ Len(reads[p]) > 2 => original_config[p] # NoValue
    /\ (original_config[p] = NoValue \/ device[p] = NoValue) =>
         issued[p] = <<>> /\ Len(reads[p]) <= 4
    /\ issued[p] # <<>> => AppliesOf(p) = {1} /\ Len(reads[p]) >= 4
    /\ Len(reads[p]) > 4 => issued[p] # <<>> /\ ExitedOk(issued[p][1])

\* C24: a configure call runs validation, snapshot, resolution, set-default
\* and re-read with verification in that order, each at most once and each
\* only after the ones before it succeeded: no command runs when the
\* validation fails, the applying set-default-sink is issued at most once,
\* and never when the snapshot or the resolution failed
C24_StepOrder ==
  /\ [](\A p \in Callers : StepsOnce(p))
  /\ [][\A p \in Callers : StepsInOrder(p)]_vars

\* a configure that went through every step and returned success
C24_Witness ==
  /\ Returned(1, "configure")
  /\ result[1].ok
  /\ CommandsRead(1) = FixedReads
  /\ Cardinality(AppliesOf(1)) = 1

(***************************************************************************)
(* Overlapping calls                                                       *)
(***************************************************************************)
LastIssued(p) == issued[p][Len(issued[p])]
\* caller p returns from the restoring command, which took effect
Restores(p) ==
  /\ pc[p] = "rollback"
  /\ pc'[p] = "idle"
  /\ TookEffect(LastIssued(p)')
\* call a reported success for its target, call b has since restored its
\* own snapshot
Overwritten(a, b) ==
  /\ a # b
  /\ Returned(a, "configure")
  /\ result[a].ok
  /\ reread[a].some
  /\ reread[a].v.device_id = device[a].name
  /\ Returned(b, "configure")
  /\ ~result[b].ok
  /\ RollbacksOf(b) # {}
  /\ TookEffect(LastIssued(b))
  /\ default_sink = Some(original_config[b].device_id)
  /\ default_sink # Some(device[a].name)

\* C25: overlapping configure calls are not coordinated: a call's restoring
\* command sets the default to the call's own earlier snapshot whatever
\* the other call has done and reported since, and leaves the other call's
\* result as it is
C25_Uncoordinated ==
  [][\A p \in TwoCallers :
       Restores(p) =>
         /\ default_sink' = Some(original_config[p].device_id)
         /\ \A q \in TwoCallers \ {p} :
              result'[q] = result[q] /\ pc'[q] = pc[q]]_vars

\* one call applied, verified and reported success for its target, and the
\* other call's restoring command has made another device the default
C25_Witness == \E a, b \in TwoCallers : Overwritten(a, b)

\* the error that belongs to the failure of the applying command, or to
\* the verification when the command exited with success
ErrorOfFailure(cmd) ==
  IF ExitedOk(cmd) THEN InvalidState(MsgNotApplied)
  ELSE CommandFailed(Diagnostic(cmd.outcome.out))
\* caller p returns from the restoring command
Restored(p) == pc[p] = "rollback" /\ pc'[p] = "idle"

\* C26: the error configure returns after the restoring command is the
\* error of the original failure, fixed before that command is issued: it
\* is the same whatever the restoring command returned, although the
\* default device that is left depends on it
C26_ErrorOfOriginal ==
  [][\A p \in TwoCallers :
       Restored(p) =>
         /\ pending[p] = ErrorOfFailure(issued[p][1])
         /\ result'[p] = Err(pending[p])
         /\ default_sink' =
              IF LastIssued(p)'.outcome.applied
              THEN Some(original_config[p].device_id) ELSE default_sink]_vars

\* the restoring command failed where its success would have changed the
\* default, and the call returned the error of the applying command
C26_Witness ==
  \E p \in TwoCallers :
    /\ Returned(p, "configure")
    /\ RollbacksOf(p) # {}
    /\ ~ExitedOk(LastIssued(p))
    /\ IsSink(original_config[p].device_id)
    /\ default_sink # Some(original_config[p].device_id)
    /\ ~ExitedOk(issued[p][1])
    /\ Diagnostic(issued[p][1].outcome.out) # Diagnostic(LastIssued(p).outcome.out)
    /\ result[p] = Err(CommandFailed(Diagnostic(issued[p][1].outcome.out)))

(***************************************************************************)
(* The two identifier checks                                               *)
(***************************************************************************)
\* non-empty, with a space, '/' or '\' in it, without null byte and ".."
Slack(id) ==
  /\ id # <<>>
  /\ \E i \in 1..Len(id) : id[i] \in {" ", "/", "\\"}
  /\ \A i \in 1..Len(id) : id[i] # NUL
  /\ \A i \in 1..(Len(id) - 1) : ~(id[i] = "." /\ id[i + 1] = ".")
\* configure_speaker has been called and went on to the snapshot
Passed(p) == op[p] = "configure" /\ (pc[p] # "idle" \/ reads[p] # <<>>)
\* after a snapshot that succeeded the detection is run
WentOn(p) ==
  original_config[p] # NoValue =>
    pc[p] \in {"dt_list", "dt_default"} \/ Len(reads[p]) >= 3

\* C27: an identifier validate_device_id accepts passes the check at the
\* head of configure; a non-empty identifier with a space, '/' or '\' and
\* without null byte and ".." is rejected by validate_device_id, passes the
\* check of configure and goes on to the snapshot and the resolution; and
\* no step of configure evaluates validate_device_id
C27_TwoChecks ==
  /\ []((answer = Some(TRUE) /\ op[1] = "configure") => Passed(1))
  /\ [](Slack(input) =>
          /\ answer.some => answer.v = FALSE
          /\ op[1] = "configure" => Passed(1) /\ WentOn(1))
  /\ [][op'[1] # op[1] \/ pc'[1] # pc[1] => answer' = answer]_vars

\* "a/" is refused by the validator and looked up by configure
C27_Witness ==
  /\ input = <<"a", "/">>
  /\ answer = Some(FALSE)
  /\ Returned(1, "configure")
  /\ Len(reads[1]) = 4
  /\ result[1] = Err(DeviceNotFound(<<"a", "/">>))

(***************************************************************************)
(* extract_field                                                           *)
(***************************************************************************)
\* the places of a text where the label stands with only white space
\* between it and the start of its line
LabelPlaces(text, label) ==
  {i \in Occurrences(text, label) : StartsLine(text, i)}
\* the end of the line of place i: the place before the next newline
LineEndFrom(text, i) ==
  MinOrZero({e \in i..(Len(text) + 1) : e = Len(text) + 1 \/ text[e] = "\n"}) - 1
\* the text after the first colon from place i to the end of its line,
\* trimmed; empty when the line has no colon
AfterColon(text, i) ==
  IF \E c \in i..LineEndFrom(text, i) : text[c] = ":"
  THEN Trim(SubSeq(text,
                   MinOrZero({c \in i..LineEndFrom(text, i) : text[c] = ":"}) + 1,
                   LineEndFrom(text, i)))
  ELSE <<>>

\* C28: extract_field returns the trimmed text after the first colon of the
\* first line that, trimmed, starts with the label (the empty text when
\* that line has no colon), whatever later lines carry the label; it
\* returns None exactly when no line starts with the label
C28_FirstLabelled ==
  answer.some =>
    IF LabelPlaces(input.text, input.field) = {}
    THEN answer.v = None
    ELSE answer.v =
           Some(AfterColon(input.text,
                           MinOrZero(LabelPlaces(input.text, input.field))))

\* two lines carry the label, the value is the one of the first
C28_Witness ==
  /\ input.field = <<"N", ":">>
  /\ input.text = <<"x", "N", ":", "c", "\n", " ", "N", ":", " ", "b", " ",
                    "\n", "N", ":", "a", "\n">>
  /\ answer = Some(Some(<<"b">>))

(***************************************************************************)
(* A snapshot that fails                                                   *)
(***************************************************************************)
\* the snapshot of caller p's configure has failed: a command could not be
\* spawned, the default-sink query exited with a failure, or no block of
\* the listing handed over is the default device's
SnapshotFails(p) ==
  /\ op[p] = "configure"
  /\ reads[p] # <<>>
  /\ \/ reads[p][1].how # "ok"
     \/ /\ Len(reads[p]) >= 2
        /\ \/ reads[p][2].how = "spawn"
           \/ Unlisted(Split(ListingRead(p), SinkMarker), before[p].v)
\* the error get_current_speaker_config gives for that failure
SnapshotError(p, e) ==
  IF reads[p][Len(reads[p])].how = "spawn"
  THEN \E t \in SpawnErrors : e = CommandFailed(t)
  ELSE IF Len(reads[p]) = 1 THEN e = InvalidState(MsgNoDefaultSink)
  ELSE e = DeviceNotFound(before[p].v)

\* C29: when the snapshot read of configure fails, configure returns the
\* error of that read as it is and issues no set-default-sink, whether or
\* not the identifier names a device of the listing
C29_SnapshotFailure ==
  SnapshotFails(1) =>
    /\ Returned(1, "configure")
    /\ Len(reads[1]) <= 2
    /\ issued[1] = <<>>
    /\ default_sink = before[1]
    /\ ~result[1].ok
    /\ SnapshotError(1, result[1].e)

\* the identifier b names the second sink, the default a has no block
C29_Witness ==
  /\ SnapshotFails(1)
  /\ sinks = ListingSparse
  /\ default_sink = Some(DevA)
  /\ device_id[1] = DevB
  /\ IsSink(DevB)
  /\ result[1] = Err(DeviceNotFound(DevA))

(***************************************************************************)
(* MetricsCollector                                                        *)
(***************************************************************************)
\* the value of the key stands for n calls: absent for none, else n
StandsFor(map, k, n) ==
  IF n = 0 THEN k \notin DOMAIN map ELSE k \in DOMAIN map /\ map[k] = n
\* thread t returns from increment
Incremented(t) == at[t] = "read" /\ at'[t] = "idle"

\* C30: increment(key) raises the value of the key by exactly 1, an absent
\* key counting as 0, in one read-modify-write no other thread's increment
\* overlaps: whenever no increment is under way the value of every key is
\* the number of increment calls on it that returned, and that is what
\* get returns
C30_IncrementAtomic ==
  /\ [](Cardinality({t \in Threads : at[t] # "idle"}) <= 1)
  /\ [](writer = 0 => \A k \in Keys : StandsFor(metrics, k, Calls(k)))
  /\ [](\A t \in Threads :
          got[t].some =>
            got[t].v.value = IF got[t].v.calls = 0 THEN None
                             ELSE Some(got[t].v.calls))
  /\ [][\A t \in Threads :
          Incremented(t) =>
            /\ metrics'[of_key[t]] = ValueOr0(metrics, of_key[t]) + 1
            /\ \A k \in Keys \ {of_key[t]} :
                 ValueOr0(metrics', k) = ValueOr0(metrics, k)]_vars

\* both threads incremented the key, and get returns the number of calls
C30_Witness ==
  /\ Len(done) = MaxIncrements
  /\ \A i \in 1..Len(done) : done[i].key = <<"counter">>
  /\ \A t \in Threads : \E i \in 1..Len(done) : done[i].thread = t
  /\ got[1] = Some([key |-> <<"counter">>, value |-> Some(MaxIncrements),
                    calls |-> MaxIncrements])

====
